---------------------------- MODULE Spec2Model ----------------------------
(***************************************************************************)
(* The service reconciler of local/convergence.go: one ensureService call  *)
(* for one service of a project, against a container runtime.              *)
(*                                                                         *)
(* The runtime is a set of container records; the reconciler's main        *)
(* goroutine, the goroutines of its two errgroups (the dependency gate of  *)
(* waitDependencies and the lifecycle tasks of ensureService) and the      *)
(* environment (failing runtime calls, health states, the caller           *)
(* cancelling its context) are the processes.  Every runtime API call is   *)
(* one step.                                                               *)
(***************************************************************************)
EXTENDS Integers, Sequences, FiniteSets, TLC

\* ------------------------------------------------------------------ bounds
MaxInit  == 2    \* containers of the service present before the pass
MaxScale == 2    \* largest replica count / scale in a service config
MaxDep   == 2    \* containers of one dependency service

\* --------------------------------------------------------------- constants
extLifecycle  == "x-lifecycle"
forceRecreate == "force_recreate"

Services == {"A", "B", "C", "D"}

\* depends_on of every service: dependency -> condition
DependsOn(s) ==
    CASE s = "B" -> [d \in {"A"} |-> "service_started"]
      [] s = "C" -> [d \in {"A", "B"} |-> "service_healthy"]
      [] OTHER   -> [d \in {} |-> "service_started"]

\* types.ServiceConfig.GetDependencies
GetDependencies(s) == DOMAIN DependsOn(s)

\* service.Networks of every service
Networks == {"default", "backend"}

NoErr == [kind |-> "nil", task |-> 0, step |-> ""]
Err(k, t, s) == [kind |-> k, task |-> t, step |-> s]

\* ------------------------------------------------------- labels and numbers
Digits == <<"0", "1", "2", "3", "4", "5", "6", "7", "8", "9">>
DigitVal(c) == (CHOOSE i \in 1..10 : Digits[i] = c) - 1
IsDigit(c) == \E i \in 1..10 : Digits[i] = c

RECURSIVE ParseDigits(_, _)
ParseDigits(s, acc) ==
    IF s = <<>> THEN acc
    ELSE ParseDigits(Tail(s), acc * 10 + DigitVal(Head(s)))

\* strconv.Atoi: an optional sign, then at least one digit, nothing else
Atoi(s) ==
    LET body == IF s # <<>> /\ Head(s) \in {"+", "-"} THEN Tail(s) ELSE s
        neg  == s # <<>> /\ Head(s) = "-"
    IN  IF body = <<>> \/ \E i \in 1..Len(body) : ~IsDigit(body[i])
        THEN [ok |-> FALSE, n |-> 0]
        ELSE [ok |-> TRUE,
              n  |-> IF neg THEN 0 - ParseDigits(body, 0) ELSE ParseDigits(body, 0)]

RECURSIVE NatDigits(_)
NatDigits(n) ==
    IF n < 10 THEN <<Digits[n + 1]>>
    ELSE NatDigits(n \div 10) \o <<Digits[(n % 10) + 1]>>

\* strconv.Itoa, which writes the instance-number label of a new container
Itoa(n) == IF n < 0 THEN <<"-">> \o NatDigits(0 - n) ELSE NatDigits(n)

\* fmt.Sprintf("%s_%s_%d", project.Name, service.Name, number): the canonical
\* name of instance `number`; a name is <<prefix, number>>, prefix 0 meaning
\* none
CanonicalName(number) == <<0, number>>

\* fmt.Sprintf("%s_%s", container.ID[:12], name)
TmpName(id, name) == <<id, name[2]>>

\* ------------------------------------------------------------------- state
VARIABLES
    svc,          \* the service being reconciled
    cfg,          \* its config: [replicas, scale], replicas = -1 for nil
    ext,          \* Extensions[x-lifecycle] of every service of the project
    rt,           \* the runtime: the set of containers
    callerCancel, \* the caller cancelled the context passed to ensureService
    pc,           \* position of ensureService's own goroutine
    retLine,      \* source line of the return statement taken, 0 before
    result,       \* the error ensureService returned
    actual,       \* local `actual`
    expected,     \* local `expected`
    tasks,        \* goroutines of ensureService's errgroup, in dispatch order
    egErr,        \* the errgroup's first error
    egCancel,     \* the errgroup's context is cancelled
    wleft,        \* waitDependencies: dependencies the range loop has not visited
    depVar,       \* waitDependencies: the loop variable `dep`
    gtasks,       \* goroutines of waitDependencies' errgroup
    wErr,         \* that errgroup's first error
    wCancel,      \* that errgroup's context is cancelled
    listed,       \* history: what ContainerList returned at line 48
    nMut,         \* history: lifecycle calls issued to the runtime
    anyFail,      \* history: some runtime call failed
    firstFailed,  \* history: index of the task that failed first, 0 if none
    ext0,         \* history: ext when the pass began
    rt0           \* history: rt when the pass began

vars == <<svc, cfg, ext, rt, callerCancel, pc, retLine, result, actual,
          expected, tasks, egErr, egCancel, wleft, depVar, gtasks, wErr,
          wCancel, listed, nMut, anyFail, firstFailed, ext0, rt0>>

specVars == <<svc, cfg>>
mainVars == <<pc, retLine, result, actual, expected>>
egVars   == <<tasks, egErr, egCancel, firstFailed>>
waitVars == <<wleft, depVar, gtasks, wErr, wCancel>>
histVars == <<listed, ext0, rt0>>


\* ------------------------------------------------------------ configuration
\* the service configs tried: replicas nil with no scale and with every scale
\* above 1, and a replica count of 0 overriding a non-zero scale
ServiceConfigs ==
    {[replicas |-> -1, scale |-> n] : n \in {0} \cup (2..MaxScale)}
        \cup {[replicas |-> 0, scale |-> MaxScale]}

\* getScale
getScale(config) ==
    IF config.replicas # -1 THEN config.replicas
    ELSE IF config.scale # 0 THEN config.scale
    ELSE 1

\* jsonHash of a service config that serialises: a deterministic function of
\* the config
JsonHash(config) == <<config.replicas, config.scale>>

\* the fingerprint of some other configuration
StaleHash(config) == JsonHash([config EXCEPT !.scale = @ + 1])

HealthStatus == {"none", "starting", "healthy", "unhealthy"}

HealthSeqs == UNION {[1..n -> HealthStatus] : n \in 0..MaxDep}

Container(id, s, name, num, hash, state, nets) ==
    [id |-> id, svc |-> s, name |-> name, num |-> num, hash |-> hash,
     state |-> state, nets |-> nets]

\* a container of another service of the same project: the label filter of
\* every listing must leave it out, and no operation may touch it
Foreign == Container(0, "D", <<0, 0>>, Itoa(1), <<0, 0>>, "running", Networks)

\* M containers of service s with pairwise distinct valid instance numbers;
\* ids are arbitrary, so they are given in the order of the numbers
OwnContainers(s, config) ==
    LET Kinds == (1..(MaxInit + 1))
                    \X {JsonHash(config), StaleHash(config)}
                    \X {"running", "exited"}
        Pick(m) == {f \in [1..m -> Kinds] :
                       \A i, j \in 1..m : i < j => f[i][1] < f[j][1]}
    IN  UNION {{{Container(i, s, CanonicalName(f[i][1]), Itoa(f[i][1]),
                           f[i][2], f[i][3], Networks) : i \in 1..m}
                 : f \in Pick(m)} : m \in 0..MaxInit}

\* instance-number labels that are not plain positive decimals
OddLabels == {<<"x">>, <<>>, <<"-", "1">>}

\* one container with an odd label, alone or beside instance 1
OddContainers(s, config) ==
    LET Odd(l, h) == Container(1, s, CanonicalName(MaxInit + 1), l, h,
                               "running", Networks)
        One == Container(2, s, CanonicalName(1), Itoa(1), JsonHash(config),
                         "running", Networks)
    IN  UNION {{{Odd(l, h)}, {Odd(l, h), One}}
                 : <<l, h>> \in OddLabels \X {JsonHash(config), StaleHash(config)}}

InitCommon ==
    /\ callerCancel = FALSE
    /\ pc = "wait"
    /\ retLine = 0
    /\ result = NoErr
    /\ actual = <<>>
    /\ expected = <<>>
    /\ tasks = <<>>
    /\ egErr = NoErr
    /\ egCancel = FALSE
    /\ wleft = DOMAIN DependsOn(svc)
    /\ depVar = ""
    /\ gtasks = <<>>
    /\ wErr = NoErr
    /\ wCancel = FALSE
    /\ listed = <<>>
    /\ nMut = 0
    /\ anyFail = FALSE
    /\ firstFailed = 0
    /\ ext0 = ext
    /\ rt0 = rt

\* a service without health dependencies, any set of containers
InitScale ==
    /\ svc = "A"
    /\ cfg \in ServiceConfigs
    /\ \E e \in {"", forceRecreate} :
          ext = [s \in Services |-> IF s = svc THEN e ELSE ""]
    /\ \E own \in OwnContainers(svc, cfg) : rt = own \cup {Foreign}

\* a container whose instance-number label is odd
InitOdd ==
    /\ svc = "B"
    /\ cfg \in ServiceConfigs
    /\ ext = [s \in Services |-> ""]
    /\ \E own \in OddContainers(svc, cfg) : rt = own \cup {Foreign}

\* a service with two health dependencies and one stopped container
InitGate ==
    /\ svc = "C"
    /\ cfg = [replicas |-> -1, scale |-> 0]
    /\ ext = [s \in Services |-> ""]
    /\ rt = {Foreign,
             Container(1, svc, CanonicalName(1), Itoa(1), JsonHash(cfg),
                       "exited", Networks)}

Init == (InitScale \/ InitOdd \/ InitGate) /\ InitCommon

\* ------------------------------------------------------ waitDependencies
NoPoll == [healthy |-> FALSE, err |-> NoErr]

\* a gate goroutine: its position, and the locals of its latest poll (the
\* service it asked about, the health states it read, the answer)
GateTask == [pc |-> "tick", dep |-> "", seen |-> <<>>, ret |-> NoPoll]

\* one iteration of `for dep, config := range service.DependsOn`: the loop
\* variable dep is assigned, and a goroutine is started for a health
\* condition.  The goroutine's closure captures the variable dep itself.
WaitRange ==
    /\ pc = "wait"
    /\ \E d \in wleft :
          /\ wleft' = wleft \ {d}
          /\ depVar' = d
          /\ gtasks' = IF DependsOn(svc)[d] = "service_healthy"
                       THEN Append(gtasks, GateTask)
                       ELSE gtasks
    /\ UNCHANGED <<specVars, ext, rt, callerCancel, mainVars, egVars,
                   wErr, wCancel, histVars, nMut, anyFail>>

\* variant: the switch has no case for "unhealthy"
RECURSIVE isServiceHealthy_NoUnhealthy(_, _)
isServiceHealthy_NoUnhealthy(hs, service) ==
    IF hs = <<>> THEN [healthy |-> TRUE, err |-> NoErr]
    ELSE IF Head(hs) = "none"
         THEN [healthy |-> FALSE, err |-> Err("nohealth", 0, service)]
    ELSE IF Head(hs) = "starting"
         THEN [healthy |-> FALSE, err |-> NoErr]
    ELSE isServiceHealthy_NoUnhealthy(Tail(hs), service)

\* variant: a container without a health state is passed over
RECURSIVE isServiceHealthy_NilSkipped(_, _)
isServiceHealthy_NilSkipped(hs, service) ==
    IF hs = <<>> THEN [healthy |-> TRUE, err |-> NoErr]
    ELSE IF Head(hs) \in {"starting", "unhealthy"}
         THEN [healthy |-> FALSE, err |-> NoErr]
    ELSE isServiceHealthy_NilSkipped(Tail(hs), service)

\* isServiceHealthy on the inspected containers of a listing, in listing
\* order
RECURSIVE isServiceHealthy(_, _)
isServiceHealthy(hs, service) ==
    IF hs = <<>> THEN [healthy |-> TRUE, err |-> NoErr]
    ELSE IF Head(hs) = "none"
         THEN [healthy |-> FALSE, err |-> Err("nohealth", 0, service)]
    ELSE IF Head(hs) \in {"starting", "unhealthy"}
         THEN [healthy |-> FALSE, err |-> NoErr]
    ELSE isServiceHealthy(Tail(hs), service)

GateCancelled == callerCancel \/ wCancel

\* `<-ticker.C` then `healthy, err := s.isServiceHealthy(ctx, project, dep)`:
\* the ticker fires and the goroutine polls the service the variable dep
\* names now.  The runtime lists that service's containers and reports the
\* health state of each: any sequence of states, whatever earlier polls saw.
GatePoll(t) ==
    /\ t \in 1..Len(gtasks)
    /\ gtasks[t].pc = "tick"
    /\ \/ /\ GateCancelled
          /\ gtasks' = [gtasks EXCEPT ![t] =
                [pc |-> "polled", dep |-> depVar, seen |-> <<>>,
                 ret |-> [healthy |-> FALSE, err |-> Err("canceled", t, "list")]]]
          /\ anyFail' = TRUE
       \/ /\ ~GateCancelled
          /\ \E hs \in HealthSeqs :
                gtasks' = [gtasks EXCEPT ![t] =
                    [pc |-> "polled", dep |-> depVar, seen |-> hs,
                     ret |-> isServiceHealthy(hs, depVar)]]
          /\ UNCHANGED anyFail
       \/ /\ ~GateCancelled
          /\ gtasks' = [gtasks EXCEPT ![t] =
                [pc |-> "polled", dep |-> depVar, seen |-> <<>>,
                 ret |-> [healthy |-> FALSE, err |-> Err("rt", t, "list")]]]
          /\ anyFail' = TRUE
    /\ UNCHANGED <<specVars, ext, rt, callerCancel, mainVars, egVars,
                   wleft, depVar, wErr, wCancel, histVars, nMut>>

\* lines 128-133: return the error, return nil, or wait for the next tick
GateBranch(t) ==
    /\ t \in 1..Len(gtasks)
    /\ gtasks[t].pc = "polled"
    /\ IF gtasks[t].ret.err # NoErr
       THEN /\ gtasks' = [gtasks EXCEPT ![t] =
                              [GateTask EXCEPT !.pc = "failed",
                                               !.ret = gtasks[t].ret]]
            /\ wErr' = IF wErr = NoErr THEN gtasks[t].ret.err ELSE wErr
            /\ wCancel' = TRUE
       ELSE IF gtasks[t].ret.healthy
       THEN /\ gtasks' = [gtasks EXCEPT ![t] =
                              [GateTask EXCEPT !.pc = "done",
                                               !.dep = gtasks[t].dep,
                                               !.ret = gtasks[t].ret]]
            /\ UNCHANGED <<wErr, wCancel>>
       ELSE /\ gtasks' = [gtasks EXCEPT ![t] = GateTask]
            /\ UNCHANGED <<wErr, wCancel>>
    /\ UNCHANGED <<specVars, ext, rt, callerCancel, mainVars, egVars,
                   wleft, depVar, histVars, nMut, anyFail>>

\* `return eg.Wait()` of waitDependencies, then lines 43-46 of ensureService
WaitReturn ==
    /\ pc = "wait"
    /\ wleft = {}
    /\ \A t \in 1..Len(gtasks) : gtasks[t].pc \in {"done", "failed"}
    /\ IF wErr # NoErr
       THEN /\ pc' = "done"
            /\ retLine' = 45
            /\ result' = wErr
       ELSE /\ pc' = "list"
            /\ UNCHANGED <<retLine, result>>
    /\ UNCHANGED <<specVars, ext, rt, callerCancel, actual, expected,
                   egVars, waitVars, histVars, nMut, anyFail>>

\* the caller cancels the context it passed, while some goroutine of the
\* call can still observe it
CallerCancel ==
    /\ ~callerCancel
    /\ pc # "crashed"
    /\ \/ pc \in {"wait", "list", "scale", "hash"}
       \/ \E i \in 1..Len(tasks) : tasks[i].pc \notin {"done", "failed"}
    /\ callerCancel' = TRUE
    /\ UNCHANGED <<specVars, ext, rt, mainVars, egVars, waitVars,
                   histVars, nMut, anyFail>>

\* ---------------------------------------------------------------- runtime
\* The container runtime's answer to each call that succeeds.

\* ContainerList with the project and service label filter, in an order of
\* the runtime's choosing
RtList(r, s) ==
    LET own == {c \in r : c.svc = s}
        n   == Cardinality(own)
    IN  {l \in [1..n -> own] : \A i, j \in 1..n : i # j => l[i] # l[j]}

RtNameInUse(r, name) == \E c \in r : c.name = name

\* create with the labels getContainerCreateOptions derives: service,
\* instance number and configuration hash
RtCreate(r, id, s, name, number, hash) ==
    r \cup {Container(id, s, name, Itoa(number), hash, "created", {})}

RtUpdate(r, id, field, value) ==
    {IF c.id = id THEN [c EXCEPT ![field] = value] ELSE c : c \in r}

RtConnect(r, id, net) ==
    {IF c.id = id THEN [c EXCEPT !.nets = @ \cup {net}] ELSE c : c \in r}

RtStart(r, id) == RtUpdate(r, id, "state", "running")

RtStop(r, id) == RtUpdate(r, id, "state", "exited")

RtRename(r, id, name) == RtUpdate(r, id, "name", name)

RtDelete(r, id) == {c \in r : c.id # id}

\* the id the runtime gives the container that task i creates
NewId(i) == Cardinality(rt0) + i

\* ---------------------------------------------------------- ensureService
\* lines 48-56: list the service's containers
ListActual ==
    /\ pc = "list"
    /\ \/ /\ ~callerCancel
          /\ \E l \in RtList(rt, svc) :
                /\ actual' = l
                /\ listed' = l
          /\ pc' = "scale"
          /\ UNCHANGED <<retLine, result, anyFail>>
       \/ /\ \E k \in (IF callerCancel THEN {"canceled"} ELSE {"rt"}) :
                result' = Err(k, 0, "list")
          /\ pc' = "done"
          /\ retLine' = 55
          /\ anyFail' = TRUE
          /\ UNCHANGED <<actual, listed>>
    /\ UNCHANGED <<specVars, ext, rt, callerCancel, expected, egVars,
                   waitVars, ext0, rt0, nMut>>

\* nextContainerNumber
RECURSIVE MaxNumber(_, _)
MaxNumber(containers, max) ==
    IF containers = <<>> THEN [ok |-> TRUE, n |-> max]
    ELSE LET n == Atoi(Head(containers).num)
         IN  IF ~n.ok THEN [ok |-> FALSE, n |-> 0]
             ELSE MaxNumber(Tail(containers), IF n.n > max THEN n.n ELSE max)

nextContainerNumber(containers) ==
    LET m == MaxNumber(containers, 0)
    IN  IF m.ok THEN [ok |-> TRUE, n |-> m.n + 1] ELSE m

Task(kind, c, name, number, at) ==
    [kind |-> kind, cid |-> c.id, label |-> c.num, name |-> name,
     number |-> number, pc |-> at, nid |-> 0, err |-> NoErr]

NoContainer == [id |-> 0, num |-> <<>>, name |-> <<0, 0>>]

\* lines 66-73: one createContainer per missing instance
CreateTasks(next, missing) ==
    [i \in 1..missing |->
        Task("create", NoContainer, CanonicalName(next + i - 1), next + i - 1,
             "create")]

\* variant: the scale-down loop starts one position late
RemoveTasks_OffByOne(containers, scale) ==
    [i \in 1..(Len(containers) - scale - 1) |->
        Task("remove", containers[scale + 1 + i], containers[scale + 1 + i].name,
             0, "stop")]

\* lines 77-86: stop then delete actual[scale:]
RemoveTasks(containers, scale) ==
    [i \in 1..(Len(containers) - scale) |->
        Task("remove", containers[scale + i], containers[scale + i].name, 0,
             "stop")]

\* variant: the working set is not restricted to the surviving prefix
ScaleStep_NoTruncate ==
    /\ pc = "scale"
    /\ LET scale == getScale(cfg)
           next  == nextContainerNumber(actual)
       IN  IF Len(actual) < scale /\ ~next.ok
           THEN /\ pc' = "done"
                /\ retLine' = 64
                /\ result' = Err("atoi", 0, "nextContainerNumber")
                /\ UNCHANGED <<actual, tasks>>
           ELSE /\ pc' = "hash"
                /\ tasks' = IF Len(actual) < scale
                            THEN CreateTasks(next.n, scale - Len(actual))
                            ELSE IF Len(actual) > scale
                            THEN RemoveTasks(actual, scale)
                            ELSE <<>>
                /\ actual' = actual
                /\ UNCHANGED <<retLine, result>>
    /\ UNCHANGED <<specVars, ext, rt, callerCancel, expected, egErr,
                   egCancel, firstFailed, waitVars, histVars, nMut, anyFail>>

\* lines 58-88: the scale delta
ScaleStep ==
    /\ pc = "scale"
    /\ LET scale == getScale(cfg)
           next  == nextContainerNumber(actual)
       IN  IF Len(actual) < scale /\ ~next.ok
           THEN /\ pc' = "done"
                /\ retLine' = 64
                /\ result' = Err("atoi", 0, "nextContainerNumber")
                /\ UNCHANGED <<actual, tasks>>
           ELSE /\ pc' = "hash"
                /\ tasks' = IF Len(actual) < scale
                            THEN CreateTasks(next.n, scale - Len(actual))
                            ELSE IF Len(actual) > scale
                            THEN RemoveTasks(actual, scale)
                            ELSE <<>>
                /\ actual' = IF Len(actual) > scale
                             THEN SubSeq(actual, 1, scale)
                             ELSE actual
                /\ UNCHANGED <<retLine, result>>
    /\ UNCHANGED <<specVars, ext, rt, callerCancel, expected, egErr,
                   egCancel, firstFailed, waitVars, histVars, nMut, anyFail>>

\* variant: the running check comes before the divergence check
RECURSIVE DriftTasks_RunningFirst(_, _, _)
DriftTasks_RunningFirst(containers, hash, lifecycle) ==
    IF containers = <<>> THEN <<>>
    ELSE LET c == Head(containers)
             rest == DriftTasks_RunningFirst(Tail(containers), hash, lifecycle)
             diverged == c.hash # hash
         IN  IF c.state = "running"
             THEN rest
             ELSE IF diverged \/ lifecycle = forceRecreate
             THEN <<Task("recreate", c, c.name, 0, "stop")>> \o rest
             ELSE <<Task("restart", c, c.name, 0, "start")>> \o rest

\* variant: no running check, every container that has not drifted is
\* started again
RECURSIVE DriftTasks_NoRunningCheck(_, _, _)
DriftTasks_NoRunningCheck(containers, hash, lifecycle) ==
    IF containers = <<>> THEN <<>>
    ELSE LET c == Head(containers)
             rest == DriftTasks_NoRunningCheck(Tail(containers), hash, lifecycle)
             diverged == c.hash # hash
         IN  IF diverged \/ lifecycle = forceRecreate
             THEN <<Task("recreate", c, c.name, 0, "stop")>> \o rest
             ELSE <<Task("restart", c, c.name, 0, "start")>> \o rest

\* variant: the lifecycle annotation is not consulted
RECURSIVE DriftTasks_NoForce(_, _, _)
DriftTasks_NoForce(containers, hash, lifecycle) ==
    IF containers = <<>> THEN <<>>
    ELSE LET c == Head(containers)
             rest == DriftTasks_NoForce(Tail(containers), hash, lifecycle)
             diverged == c.hash # hash
         IN  IF diverged
             THEN <<Task("recreate", c, c.name, 0, "stop")>> \o rest
             ELSE IF c.state = "running"
             THEN rest
             ELSE <<Task("restart", c, c.name, 0, "start")>> \o rest

\* lines 95-113: what the drift pass dispatches for one container
RECURSIVE DriftTasks(_, _, _)
DriftTasks(containers, hash, lifecycle) ==
    IF containers = <<>> THEN <<>>
    ELSE LET c == Head(containers)
             rest == DriftTasks(Tail(containers), hash, lifecycle)
             diverged == c.hash # hash
         IN  IF diverged \/ lifecycle = forceRecreate
             THEN <<Task("recreate", c, c.name, 0, "stop")>> \o rest
             ELSE IF c.state = "running"
             THEN rest
             ELSE <<Task("restart", c, c.name, 0, "start")>> \o rest

\* lines 90-113: the fingerprint, then the drift pass
DriftStep ==
    /\ pc = "hash"
    /\ \/ /\ expected' = JsonHash(cfg)
          /\ tasks' = tasks \o DriftTasks(actual, JsonHash(cfg), ext[svc])
          /\ pc' = "egwait"
          /\ UNCHANGED <<retLine, result>>
       \/ /\ pc' = "done"
          /\ retLine' = 92
          /\ result' = Err("hash", 0, "jsonHash")
          /\ UNCHANGED <<expected, tasks>>
    /\ UNCHANGED <<specVars, ext, rt, callerCancel, actual, egErr,
                   egCancel, firstFailed, waitVars, histVars, nMut, anyFail>>

TaskOver(i) == tasks[i].pc \in {"done", "failed"}

\* variant: the group's error is wrapped before it is returned
EgWait_Wrapped ==
    /\ pc = "egwait"
    /\ \A i \in 1..Len(tasks) : TaskOver(i)
    /\ pc' = "done"
    /\ retLine' = 114
    /\ result' = IF egErr = NoErr THEN NoErr
                 ELSE Err("wrapped", egErr.task, egErr.step)
    /\ UNCHANGED <<specVars, ext, rt, callerCancel, actual, expected,
                   egVars, waitVars, histVars, nMut, anyFail>>

\* line 114: return eg.Wait()
EgWait ==
    /\ pc = "egwait"
    /\ \A i \in 1..Len(tasks) : TaskOver(i)
    /\ pc' = "done"
    /\ retLine' = 114
    /\ result' = egErr
    /\ UNCHANGED <<specVars, ext, rt, callerCancel, actual, expected,
                   egVars, waitVars, histVars, nMut, anyFail>>

\* ------------------------------------------------ the errgroup's goroutines
TaskCancelled == callerCancel \/ egCancel

\* a goroutine returns a non-nil error: the group keeps the first one and
\* cancels its context
FailTask(i, e) ==
    /\ tasks' = [tasks EXCEPT ![i].pc = "failed", ![i].err = e]
    /\ egErr' = IF egErr = NoErr THEN e ELSE egErr
    /\ egCancel' = TRUE
    /\ firstFailed' = IF firstFailed = 0 THEN i ELSE firstFailed

\* a runtime call that returns an error: the context's, once it is
\* cancelled, or the runtime's
CallFails(i, step) ==
    /\ \E k \in (IF TaskCancelled THEN {"canceled"} ELSE {"rt"}) :
          FailTask(i, Err(k, i, step))
    /\ anyFail' = TRUE
    /\ nMut' = nMut + 1
    /\ UNCHANGED <<specVars, ext, rt, callerCancel, mainVars, waitVars,
                   histVars>>

StepTo(i, at) ==
    /\ tasks' = [tasks EXCEPT ![i].pc = at]
    /\ UNCHANGED <<egErr, egCancel, firstFailed>>

\* containerService.Stop: line 80 (scale down) and line 192 (recreate)
TaskStop(i) ==
    /\ i \in 1..Len(tasks)
    /\ tasks[i].pc = "stop"
    /\ \/ CallFails(i, "stop")
       \/ /\ ~TaskCancelled
          /\ rt' = RtStop(rt, tasks[i].cid)
          /\ StepTo(i, IF tasks[i].kind = "remove" THEN "delete" ELSE "rename")
          /\ nMut' = nMut + 1
          /\ UNCHANGED <<specVars, ext, callerCancel, mainVars,
                         waitVars, histVars, anyFail>>

\* variant: the old container is removed to free its name
TaskRename_Delete(i) ==
    /\ i \in 1..Len(tasks)
    /\ tasks[i].pc = "rename"
    /\ \/ CallFails(i, "rename")
       \/ /\ ~TaskCancelled
          /\ rt' = RtDelete(rt, tasks[i].cid)
          /\ LET number == Atoi(tasks[i].label)
             IN  IF number.ok
                 THEN /\ tasks' = [tasks EXCEPT ![i].pc = "create",
                                                ![i].number = number.n]
                      /\ UNCHANGED <<egErr, egCancel, firstFailed>>
                 ELSE FailTask(i, Err("atoi", i, "recreate"))
          /\ nMut' = nMut + 1
          /\ UNCHANGED <<specVars, ext, callerCancel, mainVars,
                         waitVars, histVars, anyFail>>

\* variant: the old container keeps its name
TaskRename_Skipped(i) ==
    /\ i \in 1..Len(tasks)
    /\ tasks[i].pc = "rename"
    /\ \/ CallFails(i, "rename")
       \/ /\ ~TaskCancelled
          /\ rt' = rt
          /\ LET number == Atoi(tasks[i].label)
             IN  IF number.ok
                 THEN /\ tasks' = [tasks EXCEPT ![i].pc = "create",
                                                ![i].number = number.n]
                      /\ UNCHANGED <<egErr, egCancel, firstFailed>>
                 ELSE FailTask(i, Err("atoi", i, "recreate"))
          /\ nMut' = nMut + 1
          /\ UNCHANGED <<specVars, ext, callerCancel, mainVars,
                         waitVars, histVars, anyFail>>

\* variant: the replacement is given the number after the old one
TaskRename_NextNumber(i) ==
    /\ i \in 1..Len(tasks)
    /\ tasks[i].pc = "rename"
    /\ \/ CallFails(i, "rename")
       \/ /\ ~TaskCancelled
          /\ rt' = RtRename(rt, tasks[i].cid,
                            TmpName(tasks[i].cid, tasks[i].name))
          /\ LET number == Atoi(tasks[i].label)
             IN  IF number.ok
                 THEN /\ tasks' = [tasks EXCEPT ![i].pc = "create",
                                                ![i].number = number.n + 1]
                      /\ UNCHANGED <<egErr, egCancel, firstFailed>>
                 ELSE FailTask(i, Err("atoi", i, "recreate"))
          /\ nMut' = nMut + 1
          /\ UNCHANGED <<specVars, ext, callerCancel, mainVars,
                         waitVars, histVars, anyFail>>

\* lines 196-205: rename the old container, then parse its number label
TaskRename(i) ==
    /\ i \in 1..Len(tasks)
    /\ tasks[i].pc = "rename"
    /\ \/ CallFails(i, "rename")
       \/ /\ ~TaskCancelled
          /\ rt' = RtRename(rt, tasks[i].cid,
                            TmpName(tasks[i].cid, tasks[i].name))
          /\ LET number == Atoi(tasks[i].label)
             IN  IF number.ok
                 THEN /\ tasks' = [tasks EXCEPT ![i].pc = "create",
                                                ![i].number = number.n]
                      /\ UNCHANGED <<egErr, egCancel, firstFailed>>
                 ELSE FailTask(i, Err("atoi", i, "recreate"))
          /\ nMut' = nMut + 1
          /\ UNCHANGED <<specVars, ext, callerCancel, mainVars,
                         waitVars, histVars, anyFail>>

\* runContainer, lines 256-263: the create options, then the runtime's create
TaskCreate(i) ==
    /\ i \in 1..Len(tasks)
    /\ tasks[i].pc = "create"
    /\ \/ /\ FailTask(i, Err("options", i, "create"))
          /\ UNCHANGED <<specVars, ext, rt, callerCancel, mainVars,
                         waitVars, histVars, nMut, anyFail>>
       \/ CallFails(i, "create")
       \/ /\ ~TaskCancelled
          /\ RtNameInUse(rt, tasks[i].name)
          /\ FailTask(i, Err("conflict", i, "create"))
          /\ anyFail' = TRUE
          /\ nMut' = nMut + 1
          /\ UNCHANGED <<specVars, ext, rt, callerCancel, mainVars,
                         waitVars, histVars>>
       \/ /\ ~TaskCancelled
          /\ ~RtNameInUse(rt, tasks[i].name)
          /\ rt' = RtCreate(rt, NewId(i), svc, tasks[i].name, tasks[i].number,
                            JsonHash(cfg))
          /\ tasks' = [tasks EXCEPT ![i].pc = "connect", ![i].nid = NewId(i)]
          /\ UNCHANGED <<egErr, egCancel, firstFailed>>
          /\ nMut' = nMut + 1
          /\ UNCHANGED <<specVars, ext, callerCancel, mainVars,
                         waitVars, histVars, anyFail>>

Connected(i) ==
    UNION {c.nets : c \in {x \in rt : x.id = tasks[i].nid}}

\* runContainer, lines 264-270: connect the new container to the next network
TaskConnect(i) ==
    /\ i \in 1..Len(tasks)
    /\ tasks[i].pc = "connect"
    /\ \/ CallFails(i, "connect")
       \/ /\ ~TaskCancelled
          /\ \E net \in Networks \ Connected(i) :
                /\ rt' = RtConnect(rt, tasks[i].nid, net)
                /\ StepTo(i, IF Connected(i) \cup {net} = Networks
                             THEN "start" ELSE "connect")
          /\ nMut' = nMut + 1
          /\ UNCHANGED <<specVars, ext, callerCancel, mainVars,
                         waitVars, histVars, anyFail>>

\* ContainerStart of the new container (line 271) and containerService.Start
\* of a stopped one (restartContainer, line 243)
TaskStart(i) ==
    /\ i \in 1..Len(tasks)
    /\ tasks[i].pc = "start"
    /\ \/ CallFails(i, "start")
       \/ /\ ~TaskCancelled
          /\ rt' = RtStart(rt, IF tasks[i].kind = "restart"
                               THEN tasks[i].cid ELSE tasks[i].nid)
          /\ StepTo(i, IF tasks[i].kind = "recreate" THEN "delete" ELSE "done")
          /\ nMut' = nMut + 1
          /\ UNCHANGED <<specVars, ext, callerCancel, mainVars,
                         waitVars, histVars, anyFail>>

\* containerService.Delete: line 84 (scale down) and line 210 (recreate)
TaskDelete(i) ==
    /\ i \in 1..Len(tasks)
    /\ tasks[i].pc = "delete"
    /\ \/ CallFails(i, "delete")
       \/ /\ ~TaskCancelled
          /\ rt' = RtDelete(rt, tasks[i].cid)
          /\ StepTo(i, IF tasks[i].kind = "recreate" THEN "setdep" ELSE "done")
          /\ nMut' = nMut + 1
          /\ UNCHANGED <<specVars, ext, callerCancel, mainVars,
                         waitVars, histVars, anyFail>>

\* variant: every service of the project is marked
setDependentLifecycle_All(extensions, service, strategy) ==
    [s \in Services |-> strategy]

\* setDependentLifecycle
setDependentLifecycle(extensions, service, strategy) ==
    [s \in Services |->
        IF service \in GetDependencies(s) THEN strategy ELSE extensions[s]]

\* the services that list `service` as a dependency: the entries of
\* project.Services that setDependentLifecycle writes
Dependents(service) == {s \in Services : service \in GetDependencies(s)}

\* two goroutines of the group are at the call of line 219 together, with an
\* entry of project.Services to write: nothing orders their accesses
RacingSetDependent(i) ==
    /\ Dependents(svc) # {}
    /\ \E j \in 1..Len(tasks) : j # i /\ tasks[j].pc = "setdep"

\* lines 219-220: mark the dependents, return nil.  setDependentLifecycle
\* takes no lock; when two calls overlap, both store the same annotation, or
\* the Go runtime detects the concurrent map writes and aborts the process.
TaskSetDependent(i) ==
    /\ i \in 1..Len(tasks)
    /\ tasks[i].pc = "setdep"
    /\ \/ /\ ext' = setDependentLifecycle(ext, svc, forceRecreate)
          /\ StepTo(i, "done")
          /\ UNCHANGED mainVars
       \/ /\ RacingSetDependent(i)
          /\ pc' = "crashed"
          /\ tasks' = [j \in 1..Len(tasks) |->
                          IF TaskOver(j) THEN tasks[j]
                          ELSE [tasks[j] EXCEPT !.pc = "crashed"]]
          /\ UNCHANGED <<ext, retLine, result, actual, expected, egErr,
                         egCancel, firstFailed>>
    /\ UNCHANGED <<specVars, rt, callerCancel, waitVars, histVars, nMut,
                   anyFail>>

\* ------------------------------------------------------------ specification
\* a service has at most one gate goroutine per service of the project, and a
\* pass dispatches at most one operation per listed container and per
\* missing instance
GateIds == 1..Cardinality(Services)

TaskIds == 1..(MaxInit + MaxScale)

Next ==
    \/ WaitRange
    \/ \E t \in GateIds : GatePoll(t) \/ GateBranch(t)
    \/ WaitReturn
    \/ CallerCancel
    \/ ListActual
    \/ ScaleStep
    \/ DriftStep
    \/ EgWait
    \/ \E i \in TaskIds :
          \/ TaskStop(i)
          \/ TaskRename(i)
          \/ TaskCreate(i)
          \/ TaskConnect(i)
          \/ TaskStart(i)
          \/ TaskDelete(i)
          \/ TaskSetDependent(i)

Spec == Init /\ [][Next]_vars

\* The pass over the service with health dependencies, under the scheduling
\* the Go runtime gives: a goroutine that can run does run, and the ticker of
\* a gate goroutine keeps firing.
NextGate ==
    \/ WaitRange
    \/ \E t \in GateIds : GatePoll(t) \/ GateBranch(t)
    \/ WaitReturn
    \/ CallerCancel
    \/ ListActual
    \/ ScaleStep
    \/ DriftStep
    \/ EgWait
    \/ \E i \in TaskIds : TaskStart(i)

GateFairness ==
    /\ WF_vars(WaitRange)
    /\ WF_vars(WaitReturn)
    /\ \A t \in GateIds : WF_vars(GatePoll(t)) /\ WF_vars(GateBranch(t))

InitLive == InitGate /\ InitCommon

LiveSpec == InitLive /\ [][NextGate]_vars /\ GateFairness

\* ------------------------------------------------------------------ claims
Own(r) == {c \in r : c.svc = svc}

Returned == pc = "done"

Succeeded == pc = "done" /\ result = NoErr

\* the listing of line 48 has been taken
HasListed == pc \in {"scale", "hash", "egwait"}
                \/ (pc = "done" /\ retLine \notin {45, 55})

TasksOfKind(kind) == {i \in 1..Len(tasks) : tasks[i].kind = kind}

ExistsId(id) == \E c \in rt : c.id = id

\* C1: when ensureService returns nil and no runtime call failed, starting
\* from containers with pairwise distinct instance-number labels, the runtime
\* holds exactly getScale(service) containers of the service, with pairwise
\* distinct instance-number labels.
C1_ScaleConvergence ==
    (/\ Succeeded
     /\ ~anyFail
     /\ \A c, d \in Own(rt0) : c # d => c.num # d.num)
    => /\ Cardinality(Own(rt)) = getScale(cfg)
       /\ \A c, d \in Own(rt) : c # d => c.num # d.num

\* a pass that scaled up and recreated a container returned nil
C1_Witness ==
    /\ Succeeded
    /\ ~anyFail
    /\ TasksOfKind("create") # {}
    /\ TasksOfKind("recreate") # {}

\* C2: in a recreate the old container is gone only when its replacement
\* exists, connected to every network and started; and when the create-new
\* phase (create, connect, start) failed, the old container is still in the
\* runtime, stopped and under its temporary name.
C2_RecreateSafety ==
    \A i \in TasksOfKind("recreate") :
       /\ ~ExistsId(tasks[i].cid)
            => \E c \in rt : /\ c.id = tasks[i].nid
                             /\ c.nets = Networks
                             /\ c.state = "running"
       /\ (tasks[i].pc = "failed"
             /\ tasks[i].err.step \in {"create", "connect", "start"})
            => \E c \in rt : /\ c.id = tasks[i].cid
                             /\ c.state = "exited"
                             /\ c.name = TmpName(tasks[i].cid, tasks[i].name)

\* a recreate whose new container was created failed to connect or start it
C2_Witness ==
    \E i \in TasksOfKind("recreate") :
       /\ tasks[i].pc = "failed"
       /\ tasks[i].err.kind = "rt"
       /\ tasks[i].err.step \in {"connect", "start"}
       /\ ExistsId(tasks[i].cid)

\* C3: after a pass that returned nil, no container listed at its start with
\* a fingerprint label other than the computed one exists any more, and each
\* of them in the surviving prefix has a successor with the same instance
\* number and the current fingerprint.
C3_DriftReplaced ==
    Succeeded =>
       \A k \in 1..Len(listed) :
          listed[k].hash # expected =>
             /\ ~ExistsId(listed[k].id)
             /\ k <= getScale(cfg) =>
                   \E c \in Own(rt) :
                      /\ Atoi(c.num) = Atoi(listed[k].num)
                      /\ c.hash = expected
                      /\ c.hash = JsonHash(cfg)

\* a running container with a stale fingerprint was in the surviving prefix
\* of a pass that returned nil
C3_Witness ==
    /\ Succeeded
    /\ \E k \in 1..Len(listed) :
          /\ k <= getScale(cfg)
          /\ listed[k].hash # expected
          /\ listed[k].state = "running"

\* the listed count equals the scale, no container drifted, all are running
NoOpState ==
    /\ HasListed
    /\ Len(listed) = getScale(cfg)
    /\ \A k \in 1..Len(listed) :
          listed[k].hash = JsonHash(cfg) /\ listed[k].state = "running"

\* C4 as stated: on a service at its scale, without drift, all running, the
\* pass issues no lifecycle call and leaves the runtime as it was.
C4_NoOpAsStated == NoOpState => (nMut = 0 /\ rt = rt0)

\* C4 amended: the same, for a service that does not carry the force-recreate
\* annotation.
C4_NoOpStability ==
    (NoOpState /\ ext[svc] # forceRecreate) => (nMut = 0 /\ rt = rt0)

\* a pass over MaxScale up-to-date running containers returned from the
\* group's wait
C4_Witness ==
    /\ NoOpState
    /\ ext[svc] # forceRecreate
    /\ Len(listed) = MaxScale
    /\ pc = "done"
    /\ retLine = 114

\* C5: the annotation of a service is force-recreate once a recreate of the
\* reconciled service has returned nil and the service lists it as a
\* dependency; in every other case (no dependency, or no recreate has
\* succeeded) it is what it was when the pass began.
C5_Propagation ==
    \A s \in Services :
       ext[s] = IF /\ \E i \in TasksOfKind("recreate") : tasks[i].pc = "done"
                   /\ svc \in GetDependencies(s)
                THEN forceRecreate
                ELSE ext0[s]

\* one recreate of A succeeded and another failed at its final delete
C5_Witness ==
    /\ svc = "A"
    /\ \E i \in TasksOfKind("recreate") : tasks[i].pc = "done"
    /\ \E i \in TasksOfKind("recreate") :
          tasks[i].pc = "failed" /\ tasks[i].err.step = "delete"
    /\ ext["B"] = forceRecreate
    /\ ext["C"] = forceRecreate
    /\ ext["D"] = ""

\* the dependencies declared with the health condition
HealthDeps(s) ==
    {d \in DOMAIN DependsOn(s) : DependsOn(s)[d] = "service_healthy"}

\* waitDependencies returned nil
GateOpen == pc # "wait" /\ wErr = NoErr

GateTasks(at) == {t \in 1..Len(gtasks) : gtasks[t].pc = at}

\* C6 as stated: once waitDependencies has returned nil, every declared
\* health dependency has been polled by a gate goroutine and found healthy.
C6_EveryDependencyPolled ==
    GateOpen =>
       \A d \in HealthDeps(svc) :
          \E t \in GateTasks("done") : gtasks[t].dep = d

\* C7 as stated: a poll that reads a container with no health state answers
\* with an error.
C7_NoHealthCheckFails ==
    \A t \in GateTasks("polled") :
       (\E k \in 1..Len(gtasks[t].seen) : gtasks[t].seen[k] = "none")
          => gtasks[t].ret.err # NoErr

\* C8 as stated: a gate goroutine waiting between polls when the context is
\* cancelled returns without another poll, so no ContainerList is ever
\* issued on a cancelled context.
C8_NoPollAfterCancel ==
    \A t \in GateTasks("polled") : gtasks[t].ret.err.kind # "canceled"

Unready(hs) == {k \in 1..Len(hs) : hs[k] # "healthy"}

\* the first container of a listing that does not report healthy
FirstUnready(hs) == hs[CHOOSE k \in Unready(hs) : \A j \in Unready(hs) : k <= j]

\* C9 as stated: a poll that reads a starting or unhealthy container, no
\* runtime call failing, does not make its goroutine return.
C9_BlocksAsStated ==
    \A t \in GateTasks("polled") :
       (\E k \in 1..Len(gtasks[t].seen) :
            gtasks[t].seen[k] \in {"starting", "unhealthy"})
          => gtasks[t].ret = NoPoll

C9_Blocks ==
    /\ \A t \in GateTasks("polled") :
          /\ (Unready(gtasks[t].seen) # {}
                /\ FirstUnready(gtasks[t].seen) \in {"starting", "unhealthy"})
               => gtasks[t].ret = NoPoll
          /\ gtasks[t].ret.healthy => Unready(gtasks[t].seen) = {}
    /\ \A t \in GateTasks("done") : gtasks[t].ret.healthy
    /\ \A t \in GateTasks("failed") : gtasks[t].ret.err # NoErr
    /\ \A t \in GateTasks("tick") : gtasks[t].ret = NoPoll
    /\ (HealthDeps(svc) # {} /\ GateOpen)
          => /\ Len(gtasks) = Cardinality(HealthDeps(svc))
             /\ GateTasks("done") = 1..Len(gtasks)
    /\ pc = "wait" => (listed = <<>> /\ tasks = <<>> /\ nMut = 0 /\ rt = rt0)

\* no poll and no gate goroutine has failed
NoGateError ==
    /\ wErr = NoErr
    /\ \A t \in 1..Len(gtasks) : gtasks[t].ret.err = NoErr

\* every answer a poll has just given is "healthy"
PollsHealthy == \A t \in GateTasks("polled") : gtasks[t].ret.healthy

\* C9 amended: while the first container of each poll that is not healthy
\* reports starting or unhealthy, no gate goroutine returns, waitDependencies
\* does not return, and ensureService neither lists its containers nor issues
\* a lifecycle call; and when no poll fails and from some point on every poll
\* reads only healthy containers, waitDependencies eventually returns nil.
C9_GateBlocksAndOpens ==
    /\ []C9_Blocks
    /\ ([]NoGateError /\ <>[]PollsHealthy) => <>GateOpen

\* one gate goroutine has returned nil while the other has just read a
\* healthy container followed by one that is starting or unhealthy, and
\* ensureService is still waiting
C9_Witness ==
    /\ pc = "wait"
    /\ GateTasks("done") # {}
    /\ \E t \in GateTasks("polled") :
          /\ Len(gtasks[t].seen) = 2
          /\ gtasks[t].seen[1] = "healthy"
          /\ gtasks[t].seen[2] \in {"starting", "unhealthy"}
          /\ gtasks[t].ret = NoPoll

\* every dispatched operation returned nil
AllTasksDone == \A i \in 1..Len(tasks) : tasks[i].pc = "done"

\* C10 as stated: ensureService returns nil if and only if every operation it
\* dispatched returned nil, and otherwise returns the error of the first
\* operation that failed.
C10_AggregationAsStated ==
    Returned =>
       /\ (result = NoErr) <=> AllTasksDone
       /\ result # NoErr =>
             (firstFailed # 0 /\ result = tasks[firstFailed].err)

\* C10 amended: ensureService returns nil only if every dispatched operation
\* returned nil; when it returns from the group's wait (line 114) it returns
\* nil if and only if all of them did, and otherwise exactly the error of the
\* operation that failed first.  (An error of the gate, the listing, the
\* numbering or the fingerprint is returned before that.)
C10_Aggregation ==
    Returned =>
       /\ result = NoErr => AllTasksDone
       /\ retLine = 114 =>
             /\ (result = NoErr) <=> AllTasksDone
             /\ result # NoErr =>
                   (firstFailed # 0 /\ result = tasks[firstFailed].err)

\* two operations failed with different errors and the pass returned
C10_Witness ==
    /\ Returned
    /\ retLine = 114
    /\ \E i, j \in 1..Len(tasks) :
          /\ tasks[i].pc = "failed"
          /\ tasks[j].pc = "failed"
          /\ firstFailed = i
          /\ tasks[j].err.kind # tasks[i].err.kind

\* the scale delta of lines 58-88 has been taken
PastScale == HasListed /\ pc # "scale"

\* C11 as stated: when ensureService returns after it dispatched at least one
\* operation, every dispatched operation has completed or the group's
\* context is cancelled.
C11_NoReturnWhileRunning ==
    (Returned /\ tasks # <<>>)
       => ((\A i \in 1..Len(tasks) : TaskOver(i)) \/ TaskCancelled)

\* a label that reads as a non-negative integer
ValidNumber(label) == Atoi(label).ok /\ Atoi(label).n >= 0

\* C12 as stated: when the service is below its scale and the instance-number
\* label of a listed container is not a valid non-negative integer (missing,
\* non-numeric or negative), ensureService returns the parsing error of
\* nextContainerNumber and dispatches no create operation.
C12_NumberingError ==
    (/\ PastScale
     /\ Len(listed) < getScale(cfg)
     /\ \E k \in 1..Len(listed) : ~ValidNumber(listed[k].num))
    => /\ Returned
       /\ retLine = 64
       /\ result.kind = "atoi"
       /\ TasksOfKind("create") = {}

\* the maximum instance-number label of a non-empty listing
MaxLabel(containers) ==
    LET ns == {Atoi(containers[k].num).n : k \in 1..Len(containers)}
    IN  CHOOSE m \in ns : \A n \in ns : n <= m

\* C13 as stated: when the service is below its scale and the numbering
\* returned a number, ensureService dispatches exactly scale - len(actual)
\* create operations, numbered consecutively from one more than the maximum
\* instance-number label listed (from 1 when nothing is listed), and each
\* created container bears the canonical name and the label of its own
\* number.
C13_ScaleUpNumbering ==
    (PastScale /\ Len(listed) < getScale(cfg) /\ retLine # 64) =>
       LET first   == IF listed = <<>> THEN 1 ELSE MaxLabel(listed) + 1
           missing == getScale(cfg) - Len(listed)
       IN  /\ TasksOfKind("create") = 1..missing
           /\ \A i \in 1..missing :
                 /\ tasks[i].number = first + i - 1
                 /\ tasks[i].name = CanonicalName(tasks[i].number)
                 /\ \A c \in rt :
                       c.id = tasks[i].nid /\ tasks[i].nid # 0 =>
                          /\ c.name = CanonicalName(tasks[i].number)
                          /\ Atoi(c.num) = [ok |-> TRUE, n |-> tasks[i].number]

\* the containers listed beyond the desired scale
Excess == {listed[k].id : k \in (getScale(cfg) + 1)..Len(listed)}

\* stop-then-delete for exactly the excess containers, the delete after the
\* stop succeeded, and no recreate or restart for them
ScaleDownDispatch ==
    /\ Cardinality(TasksOfKind("remove")) = Len(listed) - getScale(cfg)
    /\ {tasks[i].cid : i \in TasksOfKind("remove")} = Excess
    /\ \A i \in TasksOfKind("remove") :
          /\ (tasks[i].pc = "stop"
                \/ (tasks[i].pc = "failed" /\ tasks[i].err.step = "stop"))
               => \E k \in 1..Len(listed) :
                     listed[k].id = tasks[i].cid /\ listed[k] \in rt
          /\ tasks[i].pc = "delete"
               => \E c \in rt : c.id = tasks[i].cid /\ c.state = "exited"
          /\ ~ExistsId(tasks[i].cid) => tasks[i].pc = "done"
    /\ \A i \in TasksOfKind("recreate") \cup TasksOfKind("restart") :
          tasks[i].cid \notin Excess

\* the container listed at position k has not drifted and is running
UpToDateRunning(k) ==
    listed[k].hash = JsonHash(cfg) /\ listed[k].state = "running"

\* C14 as stated: on a scale-down the pass dispatches stop-then-delete for
\* exactly the containers listed beyond the scale and nothing else for them,
\* and a container of the surviving prefix that has not drifted and is
\* running stays in the runtime as it was listed.
C14_ScaleDownAsStated ==
    (PastScale /\ Len(listed) > getScale(cfg)) =>
       /\ ScaleDownDispatch
       /\ \A k \in 1..getScale(cfg) : UpToDateRunning(k) => listed[k] \in rt

\* C14 amended: the same, the surviving prefix being left alone when the
\* service does not carry the force-recreate annotation.
C14_ScaleDown ==
    (PastScale /\ Len(listed) > getScale(cfg)) =>
       /\ ScaleDownDispatch
       /\ \A k \in 1..getScale(cfg) :
             (UpToDateRunning(k) /\ ext[svc] # forceRecreate)
                => listed[k] \in rt

\* a pass scaled from two containers to one and returned nil: the second
\* listed is deleted, the first, up to date and running, is as it was
C14_Witness ==
    /\ Succeeded
    /\ Len(listed) = 2
    /\ getScale(cfg) = 1
    /\ ext[svc] # forceRecreate
    /\ UpToDateRunning(1)
    /\ listed[1] \in rt
    /\ ~ExistsId(listed[2].id)
    /\ \E i \in TasksOfKind("remove") : tasks[i].pc = "done"

\* where a goroutine is, or was when it failed
At(i) == IF tasks[i].pc = "failed" THEN tasks[i].err.step ELSE tasks[i].pc

\* the old container of recreate i is in the runtime, in the given state
\* (any state for ""), under the given name
OldIs(i, state, name) ==
    \E c \in rt : /\ c.id = tasks[i].cid
                  /\ state # "" => c.state = state
                  /\ c.name = name

\* the replacement of recreate i is in the runtime under the canonical name
NewIs(i, state, nets) ==
    \E c \in rt : /\ c.id = tasks[i].nid
                  /\ c.name = tasks[i].name
                  /\ c.state = state
                  /\ nets # {} => c.nets = nets

NoNew(i) == tasks[i].nid = 0 /\ ~ExistsId(NewId(i))

\* C15: a recreate issues stop, rename, create, connect, start and delete in
\* this order, each only after the one before returned nil: wherever the
\* goroutine is (or failed), the runtime shows the effects of exactly the
\* calls before that point and of none after it; and at most one container
\* bears the canonical name of the instance.
C15_RecreateOrdering ==
    \A i \in TasksOfKind("recreate") :
       /\ At(i) = "stop" => (OldIs(i, "", tasks[i].name) /\ NoNew(i))
       /\ At(i) = "rename" => (OldIs(i, "exited", tasks[i].name) /\ NoNew(i))
       /\ At(i) \in {"recreate", "create"}
            => /\ OldIs(i, "exited", TmpName(tasks[i].cid, tasks[i].name))
               /\ NoNew(i)
               /\ ~RtNameInUse(rt, tasks[i].name)
       /\ At(i) \in {"connect", "start"}
            => /\ OldIs(i, "exited", TmpName(tasks[i].cid, tasks[i].name))
               /\ NewIs(i, "created", {})
               /\ At(i) = "start" /\ tasks[i].pc # "failed"
                     => NewIs(i, "created", Networks)
       /\ At(i) = "delete"
            => /\ OldIs(i, "exited", TmpName(tasks[i].cid, tasks[i].name))
               /\ NewIs(i, "running", Networks)
       /\ At(i) \in {"setdep", "done"}
            => (~ExistsId(tasks[i].cid) /\ NewIs(i, "running", Networks))
       /\ Cardinality({c \in rt : c.name = tasks[i].name}) <= 1

\* a recreate has started the replacement and not yet deleted the old
\* container, while another recreate of the pass is still at its rename
C15_Witness ==
    \E i, j \in TasksOfKind("recreate") :
       /\ tasks[i].pc = "delete"
       /\ NewIs(i, "running", Networks)
       /\ OldIs(i, "exited", TmpName(tasks[i].cid, tasks[i].name))
       /\ tasks[j].pc = "rename"

\* the containers of the service had pairwise distinct instance-number
\* labels when the pass began
DistinctAtStart == \A c, d \in Own(rt0) : c # d => c.num # d.num

\* C16 as stated: from distinct labels, in every state of the pass no two
\* containers of the service in the runtime carry the same instance-number
\* label.
C16_UniqueNumbersAsStated ==
    DistinctAtStart => \A c, d \in Own(rt) : c # d => c.num # d.num

\* c is the stopped, renamed old container of a recreate and d the
\* container that recreate created
Replaces(d, c) ==
    \E i \in TasksOfKind("recreate") :
       /\ c.id = tasks[i].cid
       /\ d.id = NewId(i)
       /\ c.state = "exited"
       /\ c.name = TmpName(tasks[i].cid, tasks[i].name)

\* C16 amended: from distinct labels, two containers of the service carry
\* the same instance-number label only when one is the stopped, renamed old
\* container of a recreate and the other its replacement; no two containers
\* that are running, and no two under canonical names, share a label.
C16_UniqueNumbers ==
    DistinctAtStart =>
       \A c, d \in Own(rt) :
          (c # d /\ c.num = d.num) =>
             /\ Replaces(c, d) \/ Replaces(d, c)
             /\ ~(c.state = "running" /\ d.state = "running")
             /\ ~(c.name[1] = 0 /\ d.name[1] = 0)

\* the old container and the started replacement of a recreate carry the
\* same label, beside a container that a scale-up of the same pass created
C16_Witness ==
    /\ DistinctAtStart
    /\ \E i \in TasksOfKind("recreate") :
          /\ tasks[i].pc = "delete"
          /\ \E c, d \in Own(rt) :
                c.id = tasks[i].cid /\ d.id = tasks[i].nid /\ c.num = d.num
    /\ \E j \in TasksOfKind("create") : tasks[j].pc = "done"

\* the drift pass of lines 95-113 has run
DriftDone == pc = "egwait" \/ (pc = "done" /\ retLine = 114)

\* the recreate and restart operations dispatched for container c
DriftOps(c, kind) == {i \in TasksOfKind(kind) : tasks[i].cid = c.id}

\* C17: for each container of the surviving set the drift pass dispatches a
\* recreate exactly when its fingerprint label differs from the current
\* fingerprint or the service is annotated force-recreate; otherwise
\* nothing when it is running, otherwise one restart; nothing is dispatched
\* for any other container; and a restart starts the container it was given,
\* creating and deleting none.
C17_DriftDispatch ==
    DriftDone =>
       /\ expected = JsonHash(cfg)
       /\ \A k \in 1..Len(actual) :
             LET c == actual[k]
                 recreate == c.hash # expected \/ ext[svc] = forceRecreate
             IN  /\ Cardinality(DriftOps(c, "recreate")) =
                       (IF recreate THEN 1 ELSE 0)
                 /\ Cardinality(DriftOps(c, "restart")) =
                       (IF ~recreate /\ c.state # "running" THEN 1 ELSE 0)
       /\ \A i \in TasksOfKind("recreate") \cup TasksOfKind("restart") :
             \E k \in 1..Len(actual) : actual[k].id = tasks[i].cid
       /\ \A i \in TasksOfKind("restart") :
             /\ NoNew(i)
             /\ \E k \in 1..Len(actual) :
                   /\ actual[k].id = tasks[i].cid
                   /\ IF tasks[i].pc = "done"
                      THEN [actual[k] EXCEPT !.state = "running"] \in rt
                      ELSE actual[k] \in rt

\* a pass over a drifted container and a stopped up-to-date one dispatched a
\* recreate and a restart, and the restart returned nil
C17_Witness ==
    /\ DriftDone
    /\ ext[svc] # forceRecreate
    /\ Len(actual) = 2
    /\ TasksOfKind("recreate") # {}
    /\ \E i \in TasksOfKind("restart") : tasks[i].pc = "done"

\* the goroutines about to run, or running, setDependentLifecycle
AtSetDependent == {i \in 1..Len(tasks) : tasks[i].pc = "setdep"}

\* C18 as stated: no two goroutines of a pass access the same entry of
\* project.Services, or the same lifecycle-annotation map, at the same time
\* with one of them writing; two recreates never run setDependentLifecycle
\* on the project together, and the process is never aborted for concurrent
\* map writes.
C18_NoSharedProjectWrite ==
    /\ \A i \in AtSetDependent : ~RacingSetDependent(i)
    /\ pc # "crashed"

\* the container that goroutine i created is in the runtime, never started
CreatedNotStarted(i) ==
    \E c \in rt : c.id = tasks[i].nid /\ tasks[i].nid # 0 /\ c.state = "created"

\* C19 as stated: a container the pass created is running only when it is
\* connected to every network of the service, and when ensureService has
\* returned an error, no operation that is over has left the container it
\* created in the runtime without starting it.
C19_NoOrphanOnFailure ==
    /\ \A i \in 1..Len(tasks) :
          \A c \in rt :
             (c.id = tasks[i].nid /\ tasks[i].nid # 0 /\ c.state = "running")
                => c.nets = Networks
    /\ (Returned /\ result # NoErr) =>
          \A i \in 1..Len(tasks) : TaskOver(i) => ~CreatedNotStarted(i)

\* the poll's listing and inspections were answered by the runtime
Answered(t) == gtasks[t].ret.err.kind \notin {"rt", "canceled"}

\* every container the poll listed has a health state whose status is
\* neither starting nor unhealthy
AllReady(hs) ==
    \A k \in 1..Len(hs) : hs[k] \notin {"none", "starting", "unhealthy"}

\* what a poll answers
PollExact ==
    /\ \A t \in GateTasks("polled") :
          /\ Answered(t) => (gtasks[t].ret.healthy <=> AllReady(gtasks[t].seen))
          /\ gtasks[t].ret.healthy => gtasks[t].ret.err = NoErr
    /\ \A t \in GateTasks("done") : gtasks[t].ret.healthy
    /\ GateOpen => GateTasks("done") = 1..Len(gtasks)

\* what a gate goroutine and waitDependencies do with the answer
GateStep ==
    /\ \A t \in 1..Len(gtasks) :
          (gtasks[t].pc = "polled" /\ gtasks'[t] # gtasks[t])
             => (gtasks'[t].pc = "done" <=> gtasks[t].ret.healthy)
    /\ (pc = "wait" /\ pc' # "wait" /\ wErr = NoErr)
          => (pc' = "list" /\ GateTasks("done") = 1..Len(gtasks))

\* C20: a poll that the runtime answers reports healthy exactly when every
\* container it listed has a health state whose status is neither starting
\* nor unhealthy, so also when it listed none; the gate goroutine returns
\* nil on a poll exactly when the poll reported healthy, and when all have
\* returned nil ensureService goes on to list the service's containers.
C20_GateOpensExactly == []PollExact /\ [][GateStep]_vars

\* of two polls the runtime answered, one listed no container and the other
\* a healthy one, and both reported healthy
C20_Witness ==
    /\ pc = "wait"
    /\ \E t, u \in GateTasks("polled") :
          /\ gtasks[t].seen = <<>>
          /\ Answered(t)
          /\ gtasks[t].ret.healthy
          /\ gtasks[u].seen = <<"healthy">>
          /\ gtasks[u].ret.healthy

============================================================================
